---- MODULE Spec2Model ----
(***************************************************************************)
(* Schedule RESP Analyzer (src/app.py): the upload-to-simulation pipeline  *)
(* of the Streamlit script.  A DataFrame is a sequence of columns, each    *)
(* with its label and its cells; a cell is NaN (missing) or Val(x).        *)
(* Ratios are kept exact (numerator/denominator) until round(.., 4), after *)
(* which a number is an integer count of 1/10000 units.                    *)
(***************************************************************************)
EXTENDS Integers, Sequences, FiniteSets, TLC

VARIABLES
    file,            \* the table pd.read_excel returned (never modified)
    min_activities,  \* the value of the st.number_input widget
    size,            \* the size argument of estimate_on_time_probabilities
    pc,              \* position of the script
    df,              \* process_file's local df
    result_df,       \* the Ratio Summary process_file returned
    simulated_df     \* the table estimate_on_time_probabilities returned

vars == <<file, min_activities, size, pc, df, result_df, simulated_df>>

----------------------------------------------------------------------------
(* Bounds of the model *)

\* most rows of an uploaded table
MaxRows == 5
\* most "resp" columns of an uploaded table
MaxRespCols == 2
\* sample counts explored at each end of 0..size when the draw is random
MaxTail == 1
\* largest size, and most rows, of a direct call of the estimator
MaxSize == 3
MaxEstRows == 2

(* Program constants *)

\* st.number_input(min_value=1, value=50)
WidgetMinValue == 1
WidgetValue == 50
\* def process_file(file, min_activities=5)
ProcessFileMinActivities == 5
\* def beta_pert_sample(..., lamb=4, size=10000), estimate_on_time_probabilities(df, size=10000)
Lamb == 4
DefaultSize == 10000
\* the ndigits of round(.., 4), as a power of ten
Scale == 10000
\* the literals 1 and 2 of lines 82 and 84, and the mode 1.0 of line 103
DefaultMin == 1
DefaultMax == 2
Mode == 1

----------------------------------------------------------------------------
(* Cells *)

NaN == <<>>
Val(x) == <<x>>
isna(c) == c = NaN

(* Extended reals: the outcome of a float division and of round(.., 4) *)
Fin(v) == [k |-> "fin", v |-> v]
Inf(s) == [k |-> "inf", v |-> s]
NaNNum == [k |-> "nan", v |-> 0]
None == [k |-> "none", v |-> 0]
\* pd.notna / pd.isna on a scalar
notna(x) == x.k \in {"fin", "inf"}

----------------------------------------------------------------------------
(* Header names.  TLA+ strings are atomic, so the string tests of the loop *)
(* are tabulated over the header names the model uploads.                  *)

PaddedOD == " Original Duration (Days) "
\* col.strip()
strip(col) == IF col = PaddedOD THEN "Original Duration (Days)" ELSE col
\* 'Original Duration' in col
ContainsOriginalDuration(col) ==
    col \in {"Original Duration (Days)", "Original Duration"}
\* 'Actual Duration' in col
ContainsActualDuration(col) == col \in {"Actual Duration"}
\* 'resp' in col.lower()
ContainsResp(col) == col \in {"G - Resp", "Resp6", "RESP Discipline"}

----------------------------------------------------------------------------
(* DataFrame primitives *)

\* df.columns
Columns(d) == [c \in DOMAIN d |-> d[c].name]
ColumnSet(d) == {d[c].name : c \in DOMAIN d}
\* number of columns labelled n
Count(d, n) == Cardinality({c \in DOMAIN d : d[c].name = n})
\* the uploaded header each column of d came from
Origins(d) == [c \in DOMAIN d |-> d[c].orig]
\* df[n] for a label that is unique in d
Col(d, n) == d[CHOOSE c \in DOMAIN d : d[c].name = n].vals
\* len(df)
NRows(d) == IF d = <<>> THEN 0 ELSE Len(d[1].vals)
\* df[n].isna().all()
IsNaAll(d, n) ==
    \A c \in DOMAIN d : d[c].name = n => \A i \in DOMAIN d[c].vals : isna(d[c].vals[i])
\* df.drop(columns=[n])
DropColumn(d, n) == SelectSeq(d, LAMBDA c : c.name # n)
\* df.rename(columns={old: new})
RenameColumn(d, old, new) ==
    [c \in DOMAIN d |-> IF d[c].name = old THEN [d[c] EXCEPT !.name = new] ELSE d[c]]

RECURSIVE Compress(_, _)
\* the cells of a column kept by a boolean mask
Compress(vals, mask) ==
    IF vals = <<>> THEN <<>>
    ELSE (IF Head(mask) THEN <<Head(vals)>> ELSE <<>>) \o Compress(Tail(vals), Tail(mask))
\* df[mask]
BoolIndex(d, mask) == [c \in DOMAIN d |-> [d[c] EXCEPT !.vals = Compress(@, mask)]]

----------------------------------------------------------------------------
(* Column Normalizer: process_file lines 32-47 *)

\* df.columns = [col.strip() for col in df.columns]
StripColumns(d) == [c \in DOMAIN d |-> [d[c] EXCEPT !.name = strip(@)]]

\* if 'G - Resp' in df.columns and df['G - Resp'].isna().all(): drop it
DropEmptyGResp(d) ==
    IF "G - Resp" \in ColumnSet(d) /\ IsNaAll(d, "G - Resp")
    THEN DropColumn(d, "G - Resp")
    ELSE d

\* the loop body with the guard of its last branch left out
RenameStepUnguarded(d, col) ==
    IF ContainsOriginalDuration(col) THEN RenameColumn(d, col, "OD")
    ELSE IF ContainsActualDuration(col) THEN RenameColumn(d, col, "ACDur")
    ELSE IF ContainsResp(col) /\ IsNaAll(d, col) THEN DropColumn(d, col)
    ELSE IF ContainsResp(col) THEN RenameColumn(d, col, "G - Resp")
    ELSE d

\* one iteration of `for col in df.columns`
RenameStep(d, col) ==
    IF ContainsOriginalDuration(col) THEN RenameColumn(d, col, "OD")
    ELSE IF ContainsActualDuration(col) THEN RenameColumn(d, col, "ACDur")
    ELSE IF ContainsResp(col) /\ IsNaAll(d, col) THEN DropColumn(d, col)
    ELSE IF "G - Resp" \notin ColumnSet(d) /\ ContainsResp(col)
         THEN RenameColumn(d, col, "G - Resp")
    ELSE d

RECURSIVE RenameColumns(_, _, _)
\* the loop over the labels `cols` captured when the loop starts
RenameColumns(d, cols, k) ==
    IF k > Len(cols) THEN d
    ELSE RenameColumns(RenameStep(d, cols[k]), cols, k + 1)

NormalizeColumns(d) ==
    LET d0 == DropEmptyGResp(StripColumns(d))
    IN  RenameColumns(d0, Columns(d0), 1)

\* required_cols
required_cols ==
    {"OD", "ACDur", "Activity Status", "G - Resp", "Region", "Division", "Location"}

\* the condition of line 51
Unusable(d) == ~(required_cols \subseteq ColumnSet(d)) \/ IsNaAll(d, "G - Resp")

----------------------------------------------------------------------------
(* Record Filter & Clamp: process_file lines 55-59 *)

\* max in place of min
ClampMax(ac, od) == IF 2 * od < ac THEN ac ELSE 2 * od

\* 3 * x['OD'] in place of 2 * x['OD']
ClampTriple(ac, od) == IF 3 * od < ac THEN 3 * od ELSE ac

\* min(x['ACDur'], 2 * x['OD'])
Clamp(ac, od) == IF 2 * od < ac THEN 2 * od ELSE ac

\* df.dropna(subset=['OD', 'ACDur'])
DropNaDurations(d) ==
    BoolIndex(d, [i \in 1..NRows(d) |-> ~isna(Col(d, "OD")[i]) /\ ~isna(Col(d, "ACDur")[i])])
\* df[df['Activity Status'] == 'Completed']
KeepCompleted(d) ==
    BoolIndex(d, [i \in 1..NRows(d) |-> Col(d, "Activity Status")[i] = Val("Completed")])
\* df[df['OD'] != 0]
DropZeroOD(d) == BoolIndex(d, [i \in 1..NRows(d) |-> Col(d, "OD")[i] # Val(0)])
\* df['ACDur'] = df.apply(lambda x: min(x['ACDur'], 2 * x['OD']), axis=1)
ClampACDur(d) ==
    [c \in DOMAIN d |->
        IF d[c].name = "ACDur"
        THEN [d[c] EXCEPT !.vals =
                [i \in 1..NRows(d) |-> Val(Clamp(Col(d, "ACDur")[i][1], Col(d, "OD")[i][1]))]]
        ELSE d[c]]
\* df.dropna(subset=['G - Resp'])
DropNaResp(d) == BoolIndex(d, [i \in 1..NRows(d) |-> ~isna(Col(d, "G - Resp")[i])])

FilterAndClamp(d) == DropNaResp(ClampACDur(DropZeroOD(KeepCompleted(DropNaDurations(d)))))

\* With two columns labelled OD (or ACDur) x['OD'] is a Series, min() asks for
\* its truth value and pandas raises ValueError; on an empty frame the
\* assignment of line 58 raises instead.
DuplicateDurations(d) == Count(d, "OD") > 1 \/ Count(d, "ACDur") > 1

----------------------------------------------------------------------------
(* Group Aggregator: process_file lines 61-87 *)

RECURSIVE Sum(_)
\* Series.sum() of a numeric column without missing cells
Sum(vals) == IF vals = <<>> THEN 0 ELSE Head(vals)[1] + Sum(Tail(vals))

\* numpy's float division n / d: x/0 is +-inf, 0/0 is nan, nothing is raised
Div(n, d) ==
    IF d # 0 THEN [k |-> "fin", n |-> n, d |-> d]
    ELSE IF n > 0 THEN [k |-> "inf", n |-> 1, d |-> 0]
    ELSE IF n < 0 THEN [k |-> "inf", n |-> -1, d |-> 0]
    ELSE [k |-> "nan", n |-> 0, d |-> 0]
NanRatio == [k |-> "nan", n |-> 0, d |-> 0]

\* the integer nearest to n / d (d # 0), ties to the even one
RoundHalfEven(n, d) ==
    LET nn == IF d < 0 THEN -n ELSE n
        dd == IF d < 0 THEN -d ELSE d
        q  == nn \div dd
        r  == nn - q * dd
    IN  IF 2 * r < dd THEN q
        ELSE IF 2 * r > dd THEN q + 1
        ELSE IF q % 2 = 0 THEN q ELSE q + 1

\* round(x, 4) of a ratio, in units of 1/10000
round4(x) == IF x.k = "fin" THEN Fin(RoundHalfEven(Scale * x.n, x.d)) ELSE Inf(x.n)

\* the tuple of grouping cells of row i
Key(d, i) ==
    <<Col(d, "G - Resp")[i], Col(d, "Region")[i], Col(d, "Division")[i], Col(d, "Location")[i]>>
\* groupby(..) keeps its default dropna=True: a key with a missing cell forms no group
GroupKeys(d) ==
    {Key(d, i) : i \in {j \in 1..NRows(d) : \A f \in 1..4 : ~isna(Key(d, j)[f])}}
\* the rows of one group
Group(d, key) == BoolIndex(d, [i \in 1..NRows(d) |-> Key(d, i) = key])

\* the order of Python's string comparison on the grouping values the model uploads
StrOrder == <<"D1", "East", "L1", "Plant", "R1", "R2">>
Rank(c) == CHOOSE r \in DOMAIN StrOrder : StrOrder[r] = c[1]
KeyLess(a, b) ==
    \E f \in 1..4 : Rank(a[f]) < Rank(b[f]) /\ \A g \in 1..(f - 1) : a[g] = b[g]
RECURSIVE SortKeys(_)
\* groupby(..) keeps its default sort=True
SortKeys(S) ==
    IF S = {} THEN <<>>
    ELSE LET m == CHOOSE x \in S : \A y \in S \ {x} : KeyLess(x, y)
         IN  <<m>> \o SortKeys(S \ {m})

\* group[group['ACDur'] < group['OD']]
EarlyRows(g) == BoolIndex(g, [i \in 1..NRows(g) |-> Col(g, "ACDur")[i][1] < Col(g, "OD")[i][1]])
\* group[group['ACDur'] > group['OD']]
LateRows(g) == BoolIndex(g, [i \in 1..NRows(g) |-> Col(g, "ACDur")[i][1] > Col(g, "OD")[i][1]])
\* x.sum() / y.sum() if not empty else np.nan
RatioOrNan(g) ==
    IF NRows(g) > 0 THEN Div(Sum(Col(g, "ACDur")), Sum(Col(g, "OD"))) ELSE NanRatio

\* the two defaults exchanged
MinFieldSwapped(x) == IF notna(x) THEN round4(x) ELSE Fin(DefaultMax * Scale)
\* 'Min': round(min_ratio, 4) if pd.notna(min_ratio) else 1
MinField(x) == IF notna(x) THEN round4(x) ELSE Fin(DefaultMin * Scale)
\* 'Most Likely': round(ml_ratio, 4) if pd.notna(ml_ratio) else None
MostLikelyField(x) == IF notna(x) THEN round4(x) ELSE None
\* 'Max': round(max_ratio, 4) if pd.notna(max_ratio) else 2
MaxField(x) == IF notna(x) THEN round4(x) ELSE Fin(DefaultMax * Scale)

\* file.name
file_name == "schedule.xlsx"
ResultFields == {"File", "Region", "Division", "Location", "G - Resp", "Min", "Most Likely", "Max"}

\* the dict appended for one group
SummaryRow(g, key) ==
    [f \in ResultFields |->
        CASE f = "File" -> file_name
          [] f = "Region" -> key[2][1]
          [] f = "Division" -> key[3][1]
          [] f = "Location" -> key[4][1]
          [] f = "G - Resp" -> key[1][1]
          [] f = "Min" -> MinField(RatioOrNan(EarlyRows(g)))
          [] f = "Most Likely" -> MostLikelyField(Div(Sum(Col(g, "ACDur")), Sum(Col(g, "OD"))))
          [] f = "Max" -> MaxField(RatioOrNan(LateRows(g)))]

RECURSIVE Summaries(_, _, _)
\* the loop over the groups, in key order
Summaries(d, keys, threshold) ==
    IF keys = <<>> THEN <<>>
    ELSE LET g == Group(d, Head(keys))
         IN  (IF NRows(g) < threshold THEN <<>> ELSE <<SummaryRow(g, Head(keys))>>)
             \o Summaries(d, Tail(keys), threshold)

\* lines 62-87
BuildResults(d, threshold) == Summaries(d, SortKeys(GroupKeys(d)), threshold)

----------------------------------------------------------------------------
(* PERT Monte Carlo Estimator: lines 89-110 *)

\* n / d > 0
Positive(n, d) == (n > 0 /\ d > 0) \/ (n < 0 /\ d < 0)
\* the numerators of alpha and beta_param over the common denominator max_val - min_val
AlphaNum(mn, mx) == (mx - mn) + Lamb * (Mode * Scale - mn)
BetaNum(mn, mx) == (mx - mn) + Lamb * (mx - Mode * Scale)

\* beta.rvs raises ValueError("Domain error in arguments") unless alpha > 0,
\* beta_param > 0 and scale >= 0; a shape that is nan (an infinite bound) fails too
DomainError(mn, mx) ==
    IF mn.k = "fin" /\ mx.k = "fin"
    THEN ~(Positive(AlphaNum(mn.v, mx.v), mx.v - mn.v)
           /\ Positive(BetaNum(mn.v, mx.v), mx.v - mn.v)
           /\ mx.v - mn.v >= 0)
    ELSE TRUE

\* x < 1.0 in place of x <= 1.0
BelowOne(x) == IF x.k = "fin" THEN x.v < Scale ELSE x.v < 0
\* x <= 1.0
AtMostOne(x) == IF x.k = "fin" THEN x.v <= Scale ELSE x.v < 0

\* the sample counts the model explores out of 0..n
Counts(n) ==
    (0..(IF MaxTail < n THEN MaxTail ELSE n)) \cup ((IF n > MaxTail THEN n - MaxTail ELSE 0)..n)

\* the values np.sum(beta_pert_sample(mn, 1.0, mx, size=n) <= 1.0) can take.
\* np.full gives n or 0; a Beta draw lies in [mn, mx], and any count is possible
\* when 1.0 lies in that interval.
OnTimeCounts(mn, mx, n) ==
    IF mn = mx THEN (IF AtMostOne(mn) THEN {n} ELSE {0})
    ELSE IF mx.v < Scale THEN {n}
    ELSE IF mn.v > Scale THEN {0}
    ELSE Counts(n)

\* pd.isna(row['Min']) or pd.isna(row['Max'])
MissingBounds(row) == ~notna(row["Min"]) \/ ~notna(row["Max"])
\* the row makes beta_pert_sample raise
Raises(row) ==
    ~MissingBounds(row) /\ row["Min"] # row["Max"] /\ DomainError(row["Min"], row["Max"])

\* round(np.mean(samples <= 1.0), 4)
Probability(count, n) == Fin(RoundHalfEven(Scale * count, n))

\* row.to_dict() with 'Probability On Time' added
WithProbability(row, prob) == ("Probability On Time" :> prob) @@ row

RECURSIVE Simulations(_, _)
\* every table the loop of lines 99-108 can build from rows that do not raise
Simulations(rows, n) ==
    IF rows = <<>> THEN {<<>>}
    ELSE LET row == Head(rows)
             probs == IF MissingBounds(row) THEN {None}
                      ELSE {Probability(c, n) : c \in OnTimeCounts(row["Min"], row["Max"], n)}
         IN  {<<WithProbability(row, p)>> \o t : p \in probs, t \in Simulations(Tail(rows), n)}

----------------------------------------------------------------------------
(* Uploaded tables *)

Row(od, ac, status, resp, region, division, location) ==
    [od |-> od, ac |-> ac, status |-> status, resp |-> resp,
     region |-> region, division |-> division, location |-> location]

\* rows that differ in their durations and status
ValueRows ==
    << Row(Val(1), Val(0), Val("Completed"), Val("R1"), Val("East"), Val("D1"), Val("Plant")),
       Row(Val(1), Val(1), Val("Completed"), Val("R1"), Val("East"), Val("D1"), Val("Plant")),
       Row(Val(1), Val(5), Val("Completed"), Val("R1"), Val("East"), Val("D1"), Val("Plant")),
       Row(Val(2), Val(1), Val("Completed"), Val("R1"), Val("East"), Val("D1"), Val("Plant")),
       Row(Val(2), Val(3), Val("Completed"), Val("R1"), Val("East"), Val("D1"), Val("Plant")),
       Row(Val(-4), Val(0), Val("Completed"), Val("R1"), Val("East"), Val("D1"), Val("Plant")),
       Row(Val(-4), Val(-9), Val("Completed"), Val("R1"), Val("East"), Val("D1"), Val("Plant")),
       Row(Val(0), Val(1), Val("Completed"), Val("R1"), Val("East"), Val("D1"), Val("Plant")),
       Row(NaN, Val(1), Val("Completed"), Val("R1"), Val("East"), Val("D1"), Val("Plant")),
       Row(Val(1), NaN, Val("Completed"), Val("R1"), Val("East"), Val("D1"), Val("Plant")),
       Row(Val(1), Val(1), Val("In Progress"), Val("R1"), Val("East"), Val("D1"), Val("Plant")) >>

\* rows that differ in their grouping cells
KeyRows ==
    << Row(Val(1), Val(1), Val("Completed"), Val("R1"), Val("East"), Val("D1"), Val("Plant")),
       Row(Val(1), Val(1), Val("Completed"), Val("R1"), Val("East"), Val("D1"), NaN),
       Row(Val(1), Val(1), Val("Completed"), Val("R1"), NaN, Val("D1"), Val("Plant")),
       Row(Val(1), Val(1), Val("Completed"), Val("R1"), NaN, Val("D1"), NaN),
       Row(Val(1), Val(1), Val("Completed"), Val("R1"), Val("East"), NaN, Val("Plant")),
       Row(Val(1), Val(1), Val("Completed"), Val("R2"), Val("East"), Val("D1"), Val("Plant")),
       Row(Val(1), Val(1), Val("Completed"), Val("R2"), Val("East"), Val("D1"), NaN),
       Row(Val(1), Val(1), Val("Completed"), Val("R2"), NaN, Val("D1"), Val("Plant")),
       Row(Val(1), Val(1), Val("Completed"), Val("R2"), NaN, Val("D1"), NaN),
       Row(Val(1), Val(1), Val("Completed"), NaN, Val("East"), Val("D1"), Val("Plant")) >>

RECURSIVE NonDecreasing(_, _)
\* the non-decreasing sequences of length n over 1..m: one order of each multiset
\* of rows (no line of process_file depends on the order of the rows)
NonDecreasing(n, m) ==
    IF n = 0 THEN {<<>>}
    ELSE UNION { {Append(s, j) : j \in (IF s = <<>> THEN 1 ELSE s[Len(s)])..m} :
                 s \in NonDecreasing(n - 1, m) }

\* the headers of a well-formed export, and the row field under each
ExportHeaders ==
    <<PaddedOD, "Actual Duration", "Activity Status", "Resp6", "Region", "Division", "Location">>
ExportFields == <<"od", "ac", "status", "resp", "region", "division", "location">>

\* pd.read_excel(file) of a sheet with the given headers and rows
Table(headers, fields, rows) ==
    [c \in DOMAIN headers |->
        [name |-> headers[c], orig |-> headers[c],
         vals |-> [i \in DOMAIN rows |-> rows[i][fields[c]]]]]

TablesOf(types) ==
    { Table(ExportHeaders, ExportFields, [i \in DOMAIN s |-> types[s[i]]]) :
        s \in UNION {NonDecreasing(n, Len(types)) : n \in 0..MaxRows} }

\* headers other than the "resp" ones, in sheet order, and the row field under each
OtherHeaders ==
    <<PaddedOD, "Original Duration", "Actual Duration", "Activity Status",
      "Region", "Division", "Location">>
OtherFields == <<"od", "od", "ac", "status", "region", "division", "location">>
RespHeaders == {"G - Resp", "Resp6", "RESP Discipline"}

\* the arrangements of at most MaxRespCols "resp" headers
RespArrangements ==
    { s \in UNION {[1..n -> RespHeaders] : n \in 0..MaxRespCols} :
        \A i, j \in DOMAIN s : i # j => s[i] # s[j] }

HeaderRow == Row(Val(2), Val(3), Val("Completed"), Val("R1"), Val("East"), Val("D1"), Val("Plant"))

\* a sheet of MaxRows equal rows under a choice of the other headers followed by
\* "resp" columns, each populated or entirely empty
HeaderTable(others, resps, populated) ==
    LET keep == {c \in DOMAIN OtherHeaders : OtherHeaders[c] \in others}
        pick == SelectSeq(OtherHeaders, LAMBDA h : h \in others)
        rows == [i \in 1..MaxRows |-> HeaderRow]
        left == [c \in DOMAIN pick |->
                    LET f == OtherFields[CHOOSE k \in keep : OtherHeaders[k] = pick[c]]
                    IN  [name |-> pick[c], orig |-> pick[c],
                         vals |-> [i \in 1..MaxRows |-> rows[i][f]]]]
        right == [c \in DOMAIN resps |->
                    [name |-> resps[c], orig |-> resps[c],
                     vals |-> [i \in 1..MaxRows |-> IF populated[c] THEN Val("R1") ELSE NaN]]]
    IN  left \o right

HeaderTables ==
    UNION { { HeaderTable(others, resps, populated) :
                others \in SUBSET {OtherHeaders[c] : c \in DOMAIN OtherHeaders},
                populated \in [DOMAIN resps -> BOOLEAN] } :
            resps \in RespArrangements }

----------------------------------------------------------------------------
(* The script: lines 118-137 *)

Init ==
    /\ pc = "uploaded"
    /\ \/ file \in TablesOf(ValueRows) /\ min_activities = WidgetValue
       \/ file \in TablesOf(KeyRows) /\ min_activities \in {WidgetMinValue, WidgetValue}
       \/ file \in HeaderTables /\ min_activities = WidgetValue
    /\ size = DefaultSize
    /\ df = <<>>
    /\ result_df = <<>>
    /\ simulated_df = <<>>

\* process_file lines 31-47: read the sheet and normalize its columns
Normalize ==
    /\ pc = "uploaded"
    /\ df' = NormalizeColumns(file)
    /\ pc' = "normalized"
    /\ UNCHANGED <<file, min_activities, size, result_df, simulated_df>>

\* process_file lines 50-52, and lines 121, 136-137 when it returns None
Validate ==
    /\ pc = "normalized"
    /\ pc' = IF Unusable(df) THEN "skipped" ELSE "validated"
    /\ UNCHANGED <<file, min_activities, size, df, result_df, simulated_df>>

\* process_file lines 55-59
FilterClamp ==
    /\ pc = "validated"
    /\ IF DuplicateDurations(df)
       THEN pc' = "process_file_raised" /\ df' = df
       ELSE pc' = "clamped" /\ df' = FilterAndClamp(df)
    /\ UNCHANGED <<file, min_activities, size, result_df, simulated_df>>

\* process_file lines 61-87, called at line 119 as process_file(uploaded_file):
\* the threshold is the parameter's default, not the widget's value
Aggregate ==
    /\ pc = "clamped"
    /\ result_df' = BuildResults(df, ProcessFileMinActivities)
    /\ pc' = "summarized"
    /\ UNCHANGED <<file, min_activities, size, df, simulated_df>>

\* estimate_on_time_probabilities(result_df), line 126; an exception leaves the
\* loop and the function, and simulated_df is never bound
Estimate ==
    /\ pc = "summarized"
    /\ IF \E i \in DOMAIN result_df : Raises(result_df[i])
       THEN pc' = "estimate_raised" /\ simulated_df' = simulated_df
       ELSE pc' = "simulated" /\ simulated_df' \in Simulations(result_df, size)
    /\ UNCHANGED <<file, min_activities, size, df, result_df>>

Next == Normalize \/ Validate \/ FilterClamp \/ Aggregate \/ Estimate

Spec == Init /\ [][Next]_vars

----------------------------------------------------------------------------
(* estimate_on_time_probabilities called on its own *)

\* the Min and Max of the rows passed in
EstimatorBounds == {NaNNum, Fin(8000), Fin(10000), Fin(12000), Fin(13000)}

EstimatorRow(mn, mx) ==
    [f \in ResultFields |->
        CASE f = "File" -> file_name
          [] f = "Region" -> "East"
          [] f = "Division" -> "D1"
          [] f = "Location" -> "Plant"
          [] f = "G - Resp" -> "R1"
          [] f = "Min" -> mn
          [] f = "Most Likely" -> Fin(Scale)
          [] f = "Max" -> mx]

EstimatorRows == {EstimatorRow(mn, mx) : mn \in EstimatorBounds, mx \in EstimatorBounds}

InitEstimator ==
    /\ pc = "summarized"
    /\ result_df \in UNION {[1..n -> EstimatorRows] : n \in 0..MaxEstRows}
    /\ size \in 1..MaxSize
    /\ file = <<>>
    /\ df = <<>>
    /\ min_activities = WidgetValue
    /\ simulated_df = <<>>

NextEstimator == Estimate

SpecEstimator == InitEstimator /\ [][NextEstimator]_vars

----------------------------------------------------------------------------
(* Properties *)

AfterAggregate == pc \in {"summarized", "simulated", "estimate_raised"}
AfterNormalize == pc # "uploaded"

\* the grouping cells a summary row stands for
RowKey(row) == <<Val(row["G - Resp"]), Val(row["Region"]), Val(row["Division"]), Val(row["Location"])>>
\* the clamped records whose grouping cells equal key, missing cells included
Bucket(key) == {i \in 1..NRows(df) : Key(df, i) = key}
OD(i) == Col(df, "OD")[i][1]
ACDur(i) == Col(df, "ACDur")[i][1]

\* C1: every clamped record belongs to a group of the aggregator, a missing
\* Region, Division or Location being a value of its own, and every bucket that
\* reaches the threshold process_file ran with has a row in the summary.
C1_MissingLocationFormsBucket ==
    AfterAggregate =>
        \A i \in 1..NRows(df) :
            /\ Key(df, i) \in GroupKeys(df)
            /\ Cardinality(Bucket(Key(df, i))) >= ProcessFileMinActivities
                   => \E r \in DOMAIN result_df : RowKey(result_df[r]) = Key(df, i)

\* the condition of C2 on the normalized table
C2_NoUsableGrouping ==
    \/ \E n \in {"OD", "ACDur", "Activity Status", "G - Resp", "Region", "Division", "Location"} :
           \A c \in DOMAIN df : df[c].name # n
    \/ \A c \in DOMAIN df : df[c].name = "G - Resp" => \A i \in DOMAIN df[c].vals : df[c].vals[i] = NaN

\* C2: process_file returns None (nothing filtered, nothing aggregated) exactly
\* when a required column is absent after normalization or G - Resp has no
\* value; otherwise it returns a table, and it never raises.
C2_NoneIffUnusable ==
    /\ pc = "skipped" => C2_NoUsableGrouping /\ df = NormalizeColumns(file) /\ result_df = <<>>
    /\ pc = "validated" => ~C2_NoUsableGrouping
    /\ pc # "process_file_raised"

\* C3: every group in the Ratio Summary has at least min_activities clamped
\* records, min_activities being the threshold the user supplied, and no group
\* with fewer records has a row.
C3_GroupsReachMinActivities ==
    AfterAggregate =>
        /\ \A r \in DOMAIN result_df :
               Cardinality(Bucket(RowKey(result_df[r]))) >= min_activities
        /\ \A i \in 1..NRows(df) :
               Cardinality(Bucket(Key(df, i))) < min_activities
                   => \A r \in DOMAIN result_df : RowKey(result_df[r]) # Key(df, i)

\* the cells of row i of d outside ACDur
OtherCells(d, i) ==
    <<Col(d, "OD")[i], Col(d, "Activity Status")[i], Col(d, "G - Resp")[i],
      Col(d, "Region")[i], Col(d, "Division")[i], Col(d, "Location")[i]>>

\* C4: every record that survives Filter & Clamp has ACDur <= 2 * OD, and its
\* ACDur is the smaller of its original ACDur and 2 * OD, whatever the signs.
C4_ClampInvariant ==
    [][ (pc = "validated" /\ pc' = "clamped") =>
          \A j \in 1..NRows(df') :
              /\ Col(df', "ACDur")[j][1] <= 2 * Col(df', "OD")[j][1]
              /\ Col(df', "Activity Status")[j] = Val("Completed")
              /\ Col(df', "OD")[j] # Val(0)
              /\ Col(df', "G - Resp")[j] # NaN
              /\ \E i \in 1..NRows(df) :
                     /\ OtherCells(df, i) = OtherCells(df', j)
                     /\ Col(df, "ACDur")[i] # NaN
                     /\ LET a == Col(df, "ACDur")[i][1]
                            b == 2 * Col(df, "OD")[i][1]
                        IN  Col(df', "ACDur")[j][1] = IF a <= b THEN a ELSE b ]_vars

\* a late record was capped at 2 * OD and a record with a negative OD was capped too
C4_Witness ==
    /\ pc = "clamped"
    /\ \E c \in DOMAIN file : file[c].name = "Actual Duration" /\ \E i \in DOMAIN file[c].vals : file[c].vals[i] = Val(5)
    /\ \E j, k \in 1..NRows(df) : OD(j) = 1 /\ ACDur(j) = 2 /\ OD(k) = -4 /\ ACDur(k) = -8

\* C5: a summary row of a group without early records has Min = 1, and one of a
\* group without late records has Max = 2.
C5_DefaultsForEmptySubsets ==
    AfterAggregate =>
        \A r \in DOMAIN result_df :
            LET g == Bucket(RowKey(result_df[r]))
            IN  /\ (\A i \in g : ~(ACDur(i) < OD(i))) => result_df[r]["Min"] = Fin(10000)
                /\ (\A i \in g : ~(ACDur(i) > OD(i))) => result_df[r]["Max"] = Fin(20000)

\* a group whose records all finished on time got both defaults
C5_Witness ==
    /\ AfterAggregate
    /\ \E r \in DOMAIN result_df :
           /\ \A i \in Bucket(RowKey(result_df[r])) : ACDur(i) = OD(i)
           /\ result_df[r]["Min"] = Fin(10000)
           /\ result_df[r]["Max"] = Fin(20000)

\* C6: Most Likely of every summary row is a finite number.
C6_MostLikelyDefined ==
    AfterAggregate => \A r \in DOMAIN result_df : result_df[r]["Most Likely"].k = "fin"

\* the "resp" candidates of the uploaded sheet, and those with a value
C7_Candidates ==
    {c \in DOMAIN file : /\ ContainsResp(strip(file[c].name))
                         /\ ~ContainsOriginalDuration(strip(file[c].name))
                         /\ ~ContainsActualDuration(strip(file[c].name))}
C7_Populated == {c \in C7_Candidates : \E i \in DOMAIN file[c].vals : file[c].vals[i] # NaN}
\* the columns of the normalized table that came from header h carry label n
C7_Labelled(h, n) ==
    /\ \E c \in DOMAIN df : df[c].orig = h
    /\ \A c \in DOMAIN df : df[c].orig = h => df[c].name = n
\* candidate w is G - Resp, the other candidates with a value keep their labels
\* and the candidates without a value are gone
C7_Wins(w) ==
    /\ C7_Labelled(file[w].name, "G - Resp")
    /\ \A c \in C7_Populated \ {w} : C7_Labelled(file[c].name, strip(file[c].name))
    /\ \A c \in C7_Candidates \ C7_Populated : \A k \in DOMAIN df : df[k].orig # file[c].name

\* C7 as stated: the first candidate in header order that has a value becomes
\* G - Resp, later ones keep their labels, candidates without a value are dropped.
C7_FirstCandidateWins ==
    AfterNormalize =>
        IF C7_Populated = {}
        THEN \A k \in DOMAIN df : ~ContainsResp(strip(df[k].orig))
        ELSE C7_Wins(CHOOSE w \in C7_Populated : \A c \in C7_Populated : w <= c)

\* C7 as amended: a column named exactly G - Resp that has a value stays
\* G - Resp wherever it stands; without one the first candidate with a value wins.
C7_GRespElseFirstCandidate ==
    AfterNormalize =>
        IF C7_Populated = {}
        THEN \A k \in DOMAIN df : ~ContainsResp(strip(df[k].orig))
        ELSE IF \E c \in C7_Populated : strip(file[c].name) = "G - Resp"
             THEN C7_Wins(CHOOSE c \in C7_Populated : strip(file[c].name) = "G - Resp")
             ELSE C7_Wins(CHOOSE w \in C7_Populated : \A c \in C7_Populated : w <= c)

\* two candidates with values, neither named G - Resp: the first one was adopted
C7_Witness ==
    /\ pc = "normalized"
    /\ Cardinality(C7_Populated) >= 2
    /\ \A c \in C7_Populated : file[c].name # "G - Resp"
    /\ \E k \in DOMAIN df : df[k].name = "G - Resp" /\ df[k].orig = "Resp6"
    /\ \E k \in DOMAIN df : df[k].name = "RESP Discipline"

\* C8: the estimator never aborts; its table has the rows of its input, in
\* order and unchanged, each with its own probability, which is None exactly
\* for a row whose Min or Max is missing.
C8_RowsIndependent ==
    /\ pc # "estimate_raised"
    /\ pc = "simulated" =>
        /\ Len(simulated_df) = Len(result_df)
        /\ \A i \in DOMAIN result_df :
               /\ \A f \in ResultFields : simulated_df[i][f] = result_df[i][f]
               /\ MissingBounds(result_df[i]) <=> simulated_df[i]["Probability On Time"] = None

\* C9: a row with Min = Max gets probability 1 when that value is at most 1.0
\* and 0 otherwise, for every size >= 1, and such a row does not make the
\* estimator fail.
C9_DegenerateBounds ==
    /\ pc = "simulated" =>
        \A i \in DOMAIN result_df :
            (result_df[i]["Min"].k = "fin" /\ result_df[i]["Min"] = result_df[i]["Max"]) =>
                simulated_df[i]["Probability On Time"] =
                    IF result_df[i]["Min"].v <= 10000 THEN Fin(10000) ELSE Fin(0)
    /\ pc = "estimate_raised" =>
        \E i \in DOMAIN result_df : result_df[i]["Min"] # result_df[i]["Max"]

\* Min = Max = 0.8 gave 1 and Min = Max = 1.2 gave 0, with more than one sample
C9_Witness ==
    /\ pc = "simulated"
    /\ size > 1
    /\ \E i, j \in DOMAIN result_df :
           /\ result_df[i]["Min"] = Fin(8000) /\ result_df[i]["Max"] = Fin(8000)
           /\ simulated_df[i]["Probability On Time"] = Fin(10000)
           /\ result_df[j]["Min"] = Fin(12000) /\ result_df[j]["Max"] = Fin(12000)
           /\ simulated_df[j]["Probability On Time"] = Fin(0)

\* C10: when every clamped record has OD > 0 and ACDur >= 0, every summary row
\* has 0 <= Min <= 1 <= Max <= 2, and when Min # Max both shape parameters of
\* beta_pert_sample are at least 1.
C10_BoundsOnPositiveDomain ==
    (AfterAggregate /\ \A i \in 1..NRows(df) : OD(i) > 0 /\ ACDur(i) >= 0) =>
        \A r \in DOMAIN result_df :
            LET mn == result_df[r]["Min"]
                mx == result_df[r]["Max"]
            IN  /\ mn.k = "fin" /\ mx.k = "fin"
                /\ 0 <= mn.v /\ mn.v <= 10000 /\ 10000 <= mx.v /\ mx.v <= 20000
                /\ mn # mx => /\ AlphaNum(mn.v, mx.v) >= mx.v - mn.v
                              /\ BetaNum(mn.v, mx.v) >= mx.v - mn.v
                              /\ ~Raises(result_df[r])

\* a group of positive durations with early and late records, neither default used
C10_Witness ==
    /\ AfterAggregate
    /\ \A i \in 1..NRows(df) : OD(i) > 0 /\ ACDur(i) >= 0
    /\ \E r \in DOMAIN result_df :
           /\ result_df[r]["Min"].v < 10000
           /\ result_df[r]["Max"].v > 10000 /\ result_df[r]["Max"].v < 20000

\* outside that domain the bound fails: a summary row with Min > Max
C10_OutsideDomain ==
    /\ AfterAggregate
    /\ \E r \in DOMAIN result_df :
           /\ result_df[r]["Min"].k = "fin" /\ result_df[r]["Max"].k = "fin"
           /\ result_df[r]["Min"].v > result_df[r]["Max"].v

====
